---- MODULE Spec2Model ----
(***************************************************************************)
(* Model of src/index.ts: the RobotFrameworkResultsToSlack action.         *)
(* One run reads the report, extracts the "All Tests" totals, builds a     *)
(* Slack payload and hands it to the webhook.  run() is split at its await *)
(* points; getStats/getColor/sendStats are operators computed as the code  *)
(* computes them (regex match, parseInt, toFixed, template strings).       *)
(*                                                                         *)
(* Texts are sequences of one-character strings.  A JS number is an        *)
(* integer, with NaN represented by the value NaN below (no modelled input *)
(* is negative).  The quotient passed/total*100 is kept exact: within the  *)
(* bounds used here (total < 2000) no value lies close enough to a         *)
(* rounding boundary of toFixed(1) for the double rounding error to change *)
(* a digit.                                                                *)
(***************************************************************************)
EXTENDS Integers, Sequences, FiniteSets, TLC

\* ---------------------------------------------------------------- bounds
MaxCount == 4        \* largest pass/fail/skip value of a report in Spec
MaxStatCount == 26   \* largest pass/fail/skip value in SpecStats

\* ------------------------------------------------------------ JS values
None == <<>>
Some(x) == <<x>>

NaN == -1
IsNaN(x) == x = NaN

DigitChars == <<"0", "1", "2", "3", "4", "5", "6", "7", "8", "9">>
IsDigit(c) == \E i \in 1..10 : DigitChars[i] = c
DigitValue(c) == (CHOOSE i \in 1..10 : DigitChars[i] = c) - 1

RECURSIVE Digits(_)
Digits(n) ==
  IF n < 10 THEN <<DigitChars[n + 1]>>
  ELSE Append(Digits(n \div 10), DigitChars[(n % 10) + 1])

NaNText == <<"N", "a", "N">>

\* Number.prototype.toString / template-literal conversion of a number
toString(n) == IF IsNaN(n) THEN NaNText ELSE Digits(n)

RECURSIVE LeadingDigits(_)
LeadingDigits(s) ==
  IF s = <<>> THEN <<>>
  ELSE IF IsDigit(Head(s)) THEN <<Head(s)>> \o LeadingDigits(Tail(s))
  ELSE <<>>

RECURSIVE DigitsToNat(_)
DigitsToNat(d) ==
  IF d = <<>> THEN 0
  ELSE 10 * DigitsToNat(SubSeq(d, 1, Len(d) - 1)) + DigitValue(d[Len(d)])

\* parseInt: the longest prefix of decimal digits, NaN when there is none
parseInt(s) ==
  LET d == LeadingDigits(s) IN IF d = <<>> THEN NaN ELSE DigitsToNat(d)

\* ((passed / (passed + failed + skipped)) * 100).toFixed(1)
toFixed1(passed, failed, skipped) ==
  IF IsNaN(passed) \/ IsNaN(failed) \/ IsNaN(skipped) THEN NaNText
  ELSE LET total == passed + failed + skipped IN
       IF total = 0 THEN NaNText
       ELSE LET tenths == (2000 * passed + total) \div (2 * total) IN
            Digits(tenths \div 10) \o <<".">> \o Digits(tenths % 10)

\* ------------------------------------------------- date-fns parse(...).getTime()
IsLeap(y) == (y % 4 = 0 /\ y % 100 # 0) \/ y % 400 = 0
DaysInMonth(y, m) ==
  IF m = 2 THEN (IF IsLeap(y) THEN 29 ELSE 28)
  ELSE IF m \in {4, 6, 9, 11} THEN 30 ELSE 31

RECURSIVE DaysBeforeMonth(_, _)
DaysBeforeMonth(y, m) ==
  IF m = 1 THEN 0 ELSE DaysBeforeMonth(y, m - 1) + DaysInMonth(y, m - 1)

DaysBeforeYear(y) ==
  365 * (y - 1970) + (y - 1969) \div 4 - (y - 1901) \div 100 + (y - 1601) \div 400

\* generated is "" (no regex match) or the fields <<yyyy, MM, dd, HH, mm, ss, SSS>>
\* read off the text; an out-of-range field makes the date invalid (getTime() = NaN)
parseGenerated(generated) ==
  IF Len(generated) # 7 THEN NaN
  ELSE LET y == generated[1]  mo == generated[2]  d == generated[3]
           h == generated[4]  mi == generated[5]  s == generated[6]
           ms == generated[7]
       IN IF /\ y >= 1970 /\ mo \in 1..12 /\ d \in 1..DaysInMonth(y, mo)
             /\ h \in 0..23 /\ mi \in 0..59 /\ s \in 0..59 /\ ms \in 0..999
          THEN (((DaysBeforeYear(y) + DaysBeforeMonth(y, mo) + d - 1) * 24 + h) * 60
                 + mi) * 60000 + s * 1000 + ms
          ELSE NaN

\* ------------------------------------------------------------ the inputs
NoMatch == <<>>
NonNumericText == <<"x">>

AttrTexts(max) == {Digits(n) : n \in 0..max} \cup {NonNumericText, NoMatch}
NumeralTexts(max) == {Digits(n) : n \in 0..max}

GeneratedSamples ==
  { <<>>,
    <<1970, 13, 1, 0, 0, 0, 0>>,
    <<1970, 1, 1, 0, 0, 0, 0>>,
    <<1970, 1, 2, 10, 30, 0, 123>> }

EmptyDocument == [empty |-> TRUE, stat |-> None, generated |-> <<>>]

\* a report text: the empty string, or a text with an optional
\* <stat ...>All Tests</stat> element and an optional generated="..." attribute
Documents(texts) ==
  {EmptyDocument}
  \cup [empty : {FALSE}, stat : {None}, generated : GeneratedSamples]
  \cup [empty : {FALSE},
        stat : {Some(l) : l \in [pass : texts, fail : texts, skip : texts]},
        generated : GeneratedSamples]

Files(texts) ==
  {[readable |-> FALSE, text |-> EmptyDocument]}
  \cup {[readable |-> TRUE, text |-> d] : d \in Documents(texts)}

Messages == {"", "No results found"}

Configs ==
  [ slackChannel : {"#ci"}, slackUsername : {"robot"}, slackIcon : {":robot_face:"},
    slackHeader : {"Test results"},
    alertChannelOnFailure : BOOLEAN, alertChannelOnSkipped : BOOLEAN,
    alertChannelOnSuccess : BOOLEAN, alertChannelOnNoOutput : BOOLEAN,
    noOutputFoundMessage : Messages ]

runNumber == 7

VARIABLES file, cfg, pc, resultsXml, stats, getStatsCalls, calls, delivered,
          failed, rejected, exitCode, log

vars == <<file, cfg, pc, resultsXml, stats, getStatsCalls, calls, delivered,
          failed, rejected, exitCode, log>>

\* ---------------------------------------------------------------- getStats
getArg(line, arg) == line[arg]

getStats(xml) ==
  IF xml.stat = None
  THEN [kind |-> "undefined", error |-> "Error getting stats from XML"]
  ELSE LET line == xml.stat[1] IN
       IF getArg(line, "pass") = NoMatch
       THEN [kind |-> "throw", error |-> "Error getting pass from XML"]
       ELSE IF getArg(line, "fail") = NoMatch
       THEN [kind |-> "throw", error |-> "Error getting fail from XML"]
       ELSE IF getArg(line, "skip") = NoMatch
       THEN [kind |-> "throw", error |-> "Error getting skip from XML"]
       ELSE LET passed == parseInt(getArg(line, "pass"))
                failed_ == parseInt(getArg(line, "fail"))
                skipped == parseInt(getArg(line, "skip"))
            IN [kind |-> "stats",
                value |-> [passed |-> passed, failed |-> failed_,
                           skipped |-> skipped,
                           successRate |-> parseInt(toFixed1(passed, failed_, skipped)),
                           timestamp |-> parseGenerated(xml.generated)]]

getColor(st) ==
  IF ~IsNaN(st.successRate) /\ st.successRate = 100 THEN "#2EB67D"
  ELSE IF ~IsNaN(st.successRate) /\ st.successRate > 80 THEN "#ECB22E"
  ELSE "#E01E5A"

statsAttachments(st) ==
  << [color |-> getColor(st),
      text |-> cfg.slackHeader,
      ts |-> st.timestamp,
      fields |-> << [title |-> "*Passed:*", value |-> toString(st.passed)],
                    [title |-> "*Failed:*", value |-> toString(st.failed)],
                    [title |-> "*Skipped:*", value |-> toString(st.skipped)],
                    [title |-> "*Success Rate:*",
                     value |-> toString(st.successRate) \o <<"%">>] >>] >>

\* the argument of webhook.send
slackMessage(message, attachments) ==
  [channel |-> cfg.slackChannel, username |-> cfg.slackUsername,
   icon_emoji |-> cfg.slackIcon, text |-> message, attachments |-> attachments]

\* !resultsXml: undefined, or the empty string
Falsy(xml) == IF xml = None THEN TRUE ELSE xml[1].empty

\* ----------------------------------------------------------------- actions
Init ==
  /\ file \in Files(AttrTexts(MaxCount))
  /\ cfg \in Configs
  /\ pc = "start"
  /\ resultsXml = None
  /\ stats = None
  /\ getStatsCalls = 0
  /\ calls = <<>>
  /\ delivered = <<>>
  /\ failed = None
  /\ rejected = FALSE
  /\ exitCode = 0
  /\ log = <<>>

\* const resultsXml = await this.getResults()
GetResults ==
  /\ pc = "start"
  /\ pc' = "read"
  /\ IF file.readable
     THEN resultsXml' = Some(file.text) /\ log' = log
     ELSE resultsXml' = None /\ log' = Append(log, "Error reading results file")
  /\ UNCHANGED <<file, cfg, stats, getStatsCalls, calls, delivered, failed,
                 rejected, exitCode>>

\* RunNoOutput with the alertChannelOnNoOutput test dropped
RunNoOutput_AlwaysSend ==
  /\ pc = "read"
  /\ Falsy(resultsXml)
  /\ calls' = Append(calls, slackMessage(cfg.noOutputFoundMessage, <<>>))
  /\ pc' = "awaitNoOutput"
  /\ UNCHANGED <<file, cfg, resultsXml, stats, getStatsCalls, delivered, failed,
                 rejected, exitCode, log>>

\* if (!resultsXml) { if (alertChannelOnNoOutput) await sendSlackMessage(...); return; }
RunNoOutput ==
  /\ pc = "read"
  /\ Falsy(resultsXml)
  /\ IF cfg.alertChannelOnNoOutput
     THEN /\ calls' = Append(calls, slackMessage(cfg.noOutputFoundMessage, <<>>))
          /\ pc' = "awaitNoOutput"
     ELSE /\ calls' = calls
          /\ pc' = "done"
  /\ UNCHANGED <<file, cfg, resultsXml, stats, getStatsCalls, delivered, failed,
                 rejected, exitCode, log>>

\* try { const stats = this.getStats(resultsXml); if (!stats) {...} } catch {...}
RunGetStats ==
  /\ pc = "read"
  /\ ~Falsy(resultsXml)
  /\ getStatsCalls' = getStatsCalls + 1
  /\ LET r == getStats(resultsXml[1]) IN
     IF r.kind = "stats"
     THEN /\ stats' = Some(r.value)
          /\ pc' = "haveStats"
          /\ UNCHANGED <<failed, exitCode, log>>
     ELSE /\ stats' = stats
          /\ pc' = "done"
          /\ failed' = Some(r.error)
          /\ exitCode' = 1
          /\ log' = Append(log, r.error)
  /\ UNCHANGED <<file, cfg, resultsXml, calls, delivered, rejected>>

\* await this.sendStats(stats), up to the call of webhook.send
RunSendStats ==
  /\ pc = "haveStats"
  /\ calls' = Append(calls,
                     slackMessage("Robot Test Results #" \o ToString(runNumber),
                                  statsAttachments(stats[1])))
  /\ pc' = "awaitStats"
  /\ UNCHANGED <<file, cfg, resultsXml, stats, getStatsCalls, delivered, failed,
                 rejected, exitCode, log>>

\* webhook.send resolves: the message is delivered and run() returns
WebhookResolve ==
  /\ pc \in {"awaitNoOutput", "awaitStats"}
  /\ delivered' = Append(delivered, calls[Len(calls)])
  /\ pc' = "done"
  /\ UNCHANGED <<file, cfg, resultsXml, stats, getStatsCalls, calls, failed,
                 rejected, exitCode, log>>

\* WebhookRejectStats with a retry of sendStats in the catch block
WebhookRejectStats_Retry ==
  /\ pc = "awaitStats"
  /\ IF Len(calls) < 2
     THEN pc' = "haveStats" /\ UNCHANGED <<failed, exitCode>>
     ELSE pc' = "done" /\ failed' = Some("webhook error") /\ exitCode' = 1
  /\ UNCHANGED <<file, cfg, resultsXml, stats, getStatsCalls, calls, delivered,
                 rejected, log>>

\* webhook.send rejects inside the try block: catch -> core.setFailed(error.message)
WebhookRejectStats ==
  /\ pc = "awaitStats"
  /\ failed' = Some("webhook error")
  /\ exitCode' = 1
  /\ pc' = "done"
  /\ UNCHANGED <<file, cfg, resultsXml, stats, getStatsCalls, calls, delivered,
                 rejected, log>>

\* webhook.send rejects outside the try block: run() rejects and nothing handles
\* the rejection; the exit status is the runtime's unhandled-rejection policy
WebhookRejectNoOutput ==
  /\ pc = "awaitNoOutput"
  /\ rejected' = TRUE
  /\ exitCode' \in {0, 1}
  /\ pc' = "done"
  /\ UNCHANGED <<file, cfg, resultsXml, stats, getStatsCalls, calls, delivered,
                 failed, log>>

Next ==
  \/ GetResults
  \/ RunNoOutput
  \/ RunGetStats
  \/ RunSendStats
  \/ WebhookResolve
  \/ WebhookRejectStats
  \/ WebhookRejectNoOutput

Spec == Init /\ [][Next]_vars

\* getStats and the payload construction on every well-formed summary record
InitStats ==
  /\ file \in {[readable |-> TRUE,
                text |-> [empty |-> FALSE, stat |-> Some(l), generated |-> <<>>]] :
               l \in [pass : NumeralTexts(MaxStatCount),
                      fail : NumeralTexts(MaxStatCount),
                      skip : NumeralTexts(MaxStatCount)]}
  /\ cfg \in {c \in Configs : /\ ~c.alertChannelOnFailure /\ ~c.alertChannelOnSkipped
                              /\ ~c.alertChannelOnSuccess /\ ~c.alertChannelOnNoOutput
                              /\ c.noOutputFoundMessage = ""}
  /\ pc = "read"
  /\ resultsXml = Some(file.text)
  /\ stats = None
  /\ getStatsCalls = 0
  /\ calls = <<>>
  /\ delivered = <<>>
  /\ failed = None
  /\ rejected = FALSE
  /\ exitCode = 0
  /\ log = <<>>

NextStats == RunGetStats \/ RunSendStats

SpecStats == InitStats /\ [][NextStats]_vars

\* ------------------------------------------------------------- properties
\* the summary record of the report file, read independently of getStats
IsNumeral(t) == t # <<>> /\ \A i \in 1..Len(t) : IsDigit(t[i])
HasRecord == file.readable /\ file.text.stat # None
Record == file.text.stat[1]
ValidRecord ==
  IF HasRecord
  THEN IsNumeral(Record.pass) /\ IsNumeral(Record.fail) /\ IsNumeral(Record.skip)
  ELSE FALSE
RecPass == DigitsToNat(Record.pass)
RecFail == DigitsToNat(Record.fail)
RecSkip == DigitsToNat(Record.skip)
RecTotal == RecPass + RecFail + RecSkip
NonEmptyRecord == IF ValidRecord THEN RecTotal > 0 ELSE FALSE

\* round(1000 * p / (p + f + s)): the success rate in tenths of a percent
RateTenths == (2000 * RecPass + RecTotal) \div (2 * RecTotal)
OneDecimal(tenths) == Digits(tenths \div 10) \o <<".">> \o Digits(tenths % 10)

DeliveryFailed == pc = "done" /\ Len(delivered) < Len(calls)

AlertApplies ==
  \/ RateTenths = 1000 /\ cfg.alertChannelOnSuccess
  \/ RateTenths # 1000 /\ RecFail > 0 /\ cfg.alertChannelOnFailure
  \/ RateTenths # 1000 /\ RecSkip > 0 /\ cfg.alertChannelOnSkipped

\* C1: after a successful extraction a run with no applicable enabled alert
\* condition ends Skipped: nothing is handed to the webhook, nothing is
\* delivered and the run is not marked failed.
C1_SkippedUnlessAlertEnabled ==
  (pc = "done" /\ NonEmptyRecord) =>
    (AlertApplies \/ (calls = <<>> /\ delivered = <<>> /\ failed = None))

\* C2: for a record with p + f + s > 0 getStats returns passed = p, failed = f,
\* skipped = s and a successRate whose value in tenths is round(1000p/(p+f+s)).
C2_SuccessRateOneDecimal ==
  (stats # None /\ NonEmptyRecord) =>
    /\ stats[1].passed = RecPass
    /\ stats[1].failed = RecFail
    /\ stats[1].skipped = RecSkip
    /\ ~IsNaN(stats[1].successRate)
    /\ stats[1].successRate * 10 = RateTenths

\* C3: a record with pass = fail = skip = 0 produces no Stats value, no
\* message, and a failed run; every Stats value of a numeric record has
\* passed + failed + skipped >= 1 and a numeric successRate.
C3_EmptyResultSetFails ==
  IF ValidRecord
  THEN /\ stats # None => (RecTotal >= 1 /\ ~IsNaN(stats[1].successRate))
       /\ RecTotal = 0 => (stats = None /\ calls = <<>>)
       /\ (RecTotal = 0 /\ pc = "done") => failed # None
  ELSE TRUE

\* C4: a readable report without the summary record, or whose record lacks
\* pass, fail or skip, ends the run marked failed with nothing sent.
ExtractionMustFail ==
  /\ file.readable
  /\ IF file.text.stat = None THEN TRUE
     ELSE NoMatch \in {Record.pass, Record.fail, Record.skip}

C4_ExtractionFailureIsFatal ==
  ExtractionMustFail =>
    /\ calls = <<>>
    /\ stats = None
    /\ pc = "done" => (failed # None /\ exitCode = 1)

\* C5: with the report file unreadable getStats is never called; the webhook
\* is called exactly when alertChannelOnNoOutput is set, with the fallback
\* text and no attachment; with the flag unset the run ends with no message,
\* not marked failed, exit code 0.
C5_MissingReportPolicy ==
  ~file.readable =>
    /\ getStatsCalls = 0
    /\ stats = None
    /\ failed = None
    /\ Len(calls) <= 1
    /\ pc \in {"awaitNoOutput", "done"} =>
         (Len(calls) = 1 <=> cfg.alertChannelOnNoOutput)
    /\ \A i \in 1..Len(calls) :
         /\ calls[i].text = cfg.noOutputFoundMessage
         /\ calls[i].attachments = <<>>
    /\ (pc = "done" /\ ~rejected) => delivered = calls
    /\ ~cfg.alertChannelOnNoOutput =>
         (calls = <<>> /\ delivered = <<>> /\ ~rejected /\ exitCode = 0)

C5_Witness ==
  /\ ~file.readable
  /\ pc = "done"
  /\ cfg.alertChannelOnNoOutput
  /\ cfg.noOutputFoundMessage = "No results found"
  /\ Len(delivered) = 1
  /\ delivered[1].text = "No results found"
  /\ delivered[1].attachments = <<>>

\* C6: a run whose delivery call failed ends marked failed (core.setFailed),
\* on the stats path and on the missing-report path.
C6_DeliveryFailureReported ==
  DeliveryFailed => failed # None

\* C7: the colour of a stats payload follows the one-decimal success rate:
\* green at 100, amber strictly between 80 and 100, red at 80 or less.
ColourOfRate(tenths) ==
  IF tenths = 1000 THEN "#2EB67D"
  ELSE IF tenths > 800 THEN "#ECB22E"
  ELSE "#E01E5A"

C7_ColourBands ==
  (calls # <<>> /\ NonEmptyRecord) =>
    \A i \in 1..Len(calls) :
      \A j \in 1..Len(calls[i].attachments) :
        calls[i].attachments[j].color = ColourOfRate(RateTenths)

\* C8: a valid report with failed > 0 and alertChannelOnFailure set, absent a
\* delivery failure, ends with exactly one delivered message whose single
\* attachment shows Passed = p, Failed = f, Skipped = s and the success rate
\* with one decimal and a trailing %.
C8_FailurePayload ==
  (/\ pc = "done"
   /\ NonEmptyRecord
   /\ IF ValidRecord THEN RecFail > 0 ELSE FALSE
   /\ cfg.alertChannelOnFailure
   /\ ~DeliveryFailed) =>
    /\ Len(delivered) = 1
    /\ Len(delivered[1].attachments) = 1
    /\ LET fields == delivered[1].attachments[1].fields IN
         /\ Len(fields) = 4
         /\ fields[1].value = Digits(RecPass)
         /\ fields[2].value = Digits(RecFail)
         /\ fields[3].value = Digits(RecSkip)
         /\ fields[4].value = OneDecimal(RateTenths) \o <<"%">>

\* C9: the webhook is called at most once per run (no retry), a stats payload
\* is sent only after getStats returned a Stats value, and no delivery is
\* started once the run is marked failed.
C9_AtMostOneDelivery ==
  /\ [](/\ Len(calls) <= 1
        /\ Len(delivered) <= Len(calls)
        /\ \A i \in 1..Len(calls) :
             calls[i].attachments # <<>> => (stats # None /\ getStatsCalls = 1))
  /\ [][failed # None => calls' = calls]_vars
  /\ [][calls' # calls => (/\ Len(calls') = Len(calls) + 1
                           /\ (stats = None => calls'[Len(calls')].attachments = <<>>))]_vars

C9_Witness ==
  /\ pc = "done"
  /\ stats # None
  /\ Len(calls) = 1
  /\ calls[1].attachments # <<>>
  /\ delivered = <<>>
  /\ failed # None

\* C10: with a valid summary record and a generated attribute that is missing
\* or does not parse, extraction succeeds with timestamp 0 and the payload's
\* ts is 0.
UnparsableGenerated ==
  IF file.text.generated = <<>> THEN TRUE ELSE file.text.generated[2] \notin 1..12

C10_TimestampFallbackZero ==
  (NonEmptyRecord /\ UnparsableGenerated /\ pc \in {"haveStats", "awaitStats", "done"}) =>
    /\ stats # None
    /\ stats[1].timestamp = 0
    /\ \A i \in 1..Len(calls) :
         \A j \in 1..Len(calls[i].attachments) : calls[i].attachments[j].ts = 0

====
